---------------------------- MODULE Spec2Model ----------------------------
(***************************************************************************)
(* A model of src/ado_env_approvers.py: the class AdoEnvApprovers, which   *)
(* adds an account as approver of an Azure DevOps pipeline environment.    *)
(*                                                                         *)
(* The program is a straight line of blocking HTTP requests.  Each request *)
(* is two steps here, the send and the arrival of the response, so that    *)
(* the request in flight is part of the state.  The server is the          *)
(* environment: it answers every request with a status drawn from Statuses *)
(* and, for a 2xx status, a JSON body drawn from a bounded set; any other  *)
(* status carries a body without the fields the program reads.  The one    *)
(* piece of server state kept is the set of approver ids configured on     *)
(* each environment, which a successful creation request extends and which *)
(* a 2xx checks listing reports.                                           *)
(***************************************************************************)
EXTENDS Integers, Sequences, FiniteSets, TLC

(***************************************************************************)
(* Bounds of the model.                                                    *)
(***************************************************************************)
\* invocations of add_approvers_to_env in one behaviour
MaxCalls == 2
\* entries of results[0].identities in an identity response
MaxMatches == 2
\* entries of value in an environments response
MaxEnvMatches == 2
\* check configurations in a checks listing (SpecTraverse)
MaxConfigs == 2
\* approvers of one check configuration (SpecTraverse)
MaxApprovers == 2

(***************************************************************************)
(* Program constants.                                                      *)
(***************************************************************************)
ADO_APPROVAL_GUID == "8C6F20A7-A545-4486-9777-F762FAFE0D4D"
MIN_REQUIRED_APPROVERS == 1
\* the class attribute, read from the process configuration when the class
\* is defined: a value the constructor's caller does not choose
ADO_PERSONAL_ACCESS_TOKEN == "configured_pat"
EXECUTION_ORDER == 1
TIMEOUT == 43200

(***************************************************************************)
(* Input domains.                                                          *)
(***************************************************************************)
Tokens == {"configured_pat", "dummy_pat"}
Accounts == {"alice@example.com", "ubaidce@gmail.com"}
EnvNames == {"QA1"}
Projects == {"proj"}
Ids == {"U1", "U2"}
EnvIds == {"E7", "E9"}
\* what a request can end in: an HTTP status, or 0 for a transport failure
\* (requests raises ConnectionError and there is no response)
Statuses == {0, 101, 200, 201, 304, 404, 500}
\* a local or field that is not bound yet
NONE == "<unset>"

SeqsUpTo(S, n) == UNION {[1..k -> S] : k \in 0..n}

RECURSIVE SeqOfSet(_)
SeqOfSet(S) == IF S = {} THEN <<>>
               ELSE LET x == CHOOSE y \in S : TRUE IN <<x>> \o SeqOfSet(S \ {x})

Elems(s) == {s[i] : i \in 1..Len(s)}

Is2xx(status) == status >= 200 /\ status < 300

\* requests.get / requests.post raise instead of returning a response
ConnectionError(status) == status = 0

(***************************************************************************)
(* requests.Response.raise_for_status: raises HTTPError for 4xx and 5xx.   *)
(***************************************************************************)
RaiseForStatus(status) == status >= 400 /\ status < 600

(***************************************************************************)
(* Response bodies.  A body that is not the endpoint's JSON (an error page *)
(* or an error object) has json = FALSE: reading any field of it raises.   *)
(***************************************************************************)
\* one entry of results[0].identities; hasOriginId = FALSE: no originId key
Identity == [hasOriginId : {TRUE}, originId : Ids]
            \cup {[hasOriginId |-> FALSE, originId |-> NONE]}

ErrorIdentityBody == [json |-> FALSE, results |-> <<>>]

\* results is a list of at most one entry; an entry may lack "identities"
IdentityBodies ==
    {[json |-> TRUE, results |-> <<>>]}
    \cup {[json |-> TRUE, results |-> <<[hasIdentities |-> FALSE, identities |-> <<>>]>>]}
    \cup {[json |-> TRUE, results |-> <<[hasIdentities |-> TRUE, identities |-> m]>>] :
            m \in SeqsUpTo(Identity, MaxMatches)}

ErrorEnvBody == [json |-> FALSE, count |-> 0, value |-> <<>>]

EnvBodies == {[json |-> TRUE, count |-> Len(v), value |-> v] :
                v \in SeqsUpTo([id : EnvIds], MaxEnvMatches)}

\* one approver of a check configuration; hasId = FALSE: no id key
Approver == [hasId : {TRUE}, id : Ids] \cup {[hasId |-> FALSE, id |-> NONE]}

\* one entry of checkConfigurationDataList; hasApprovers = FALSE: one of the
\* keys checkConfiguration, settings, approvers is missing
ConfigsOf(maxApprovers) ==
    {[hasApprovers |-> FALSE, approvers |-> <<>>]}
    \cup {[hasApprovers |-> TRUE, approvers |-> a] : a \in SeqsUpTo(Approver, maxApprovers)}

ErrorChecksBody == [json |-> FALSE, hasList |-> FALSE, list |-> <<>>]

\* hasList = FALSE: a key on the path to checkConfigurationDataList is missing
ChecksBodiesOf(maxConfigs, maxApprovers) ==
    {[json |-> TRUE, hasList |-> FALSE, list |-> <<>>]}
    \cup {[json |-> TRUE, hasList |-> TRUE, list |-> l] :
            l \in SeqsUpTo(ConfigsOf(maxApprovers), maxConfigs)}

ChecksBodies == ChecksBodiesOf(MaxConfigs, MaxApprovers)

(***************************************************************************)
(* __check_approver_presence, lines 133-155: the traversal of the listing. *)
(***************************************************************************)
\* lines 148-152: the ids of one configuration's approvers, skipping an
\* approver without id
RECURSIVE ApproverIds_abort(_)
ApproverIds_abort(approvers) ==
    IF approvers = <<>> THEN <<>>
    ELSE IF ~Head(approvers).hasId THEN <<>>
    ELSE <<Head(approvers).id>> \o ApproverIds_abort(Tail(approvers))

RECURSIVE ApproverIds(_)
ApproverIds(approvers) ==
    IF approvers = <<>> THEN <<>>
    ELSE IF ~Head(approvers).hasId THEN ApproverIds(Tail(approvers))
    ELSE <<Head(approvers).id>> \o ApproverIds(Tail(approvers))

\* lines 141-152: a configuration without approvers contributes nothing
RECURSIVE ConfigsApproverIds(_)
ConfigsApproverIds(check_data_list) ==
    IF check_data_list = <<>> THEN <<>>
    ELSE LET i == Head(check_data_list)
             approvers == IF i.hasApprovers THEN i.approvers ELSE <<>>
         IN  ApproverIds(approvers) \o ConfigsApproverIds(Tail(check_data_list))

\* lines 133-155: a body that is not JSON raises in response.json(), which
\* "finally: return approvers_list" swallows; a missing key is caught
CheckApproverPresence(body) ==
    IF ~body.json THEN <<>>
    ELSE IF ~body.hasList THEN <<>>
    ELSE ConfigsApproverIds(body.list)


(***************************************************************************)
(* Results of the helper methods: a value, an exception, or sys.exit.      *)
(***************************************************************************)
Ok(v) == [ok |-> TRUE, val |-> v, err |-> NONE, exit |-> <<>>]
Raise(e) == [ok |-> FALSE, val |-> NONE, err |-> e, exit |-> <<>>]
SysExit(code, msg) == [ok |-> FALSE, val |-> NONE, err |-> msg, exit |-> <<code>>]

\* the outcomes the program distinguishes by message
IdentityNotFound == "ValueError: No results found for account"
AmbiguousIdentity == "ValueError: Multiple results found for account"
EnvironmentNotFound == "ValueError: No environment found with name"
AlreadyPresent == "SystemExit: already present in the approvers list, skipping"
VerifyToken == "SystemExit: Verify your PAT token is correct"
Returned == "return response.status_code"

(***************************************************************************)
(* __get_account_id, lines 171-182, on the response to the identity query. *)
(***************************************************************************)
GetAccountId_first(status, body) ==
    IF ConnectionError(status) THEN Raise("ConnectionError")
    ELSE IF RaiseForStatus(status) THEN Raise("HTTPError")
    ELSE IF status # 200 THEN SysExit(1, VerifyToken)
    ELSE IF ~body.json THEN Raise("JSONDecodeError")
    ELSE IF body.results = <<>> THEN Raise("IndexError")
    ELSE LET r == body.results[1]
             results == IF r.hasIdentities THEN r.identities ELSE <<>>
         IN  IF Len(results) = 0 THEN Raise(IdentityNotFound)
             ELSE IF ~results[1].hasOriginId THEN Raise("KeyError: originId")
             ELSE Ok(results[1].originId)

GetAccountId(status, body) ==
    IF ConnectionError(status) THEN Raise("ConnectionError")
    ELSE IF RaiseForStatus(status) THEN Raise("HTTPError")
    ELSE IF status # 200 THEN SysExit(1, VerifyToken)
    ELSE IF ~body.json THEN Raise("JSONDecodeError")
    ELSE IF body.results = <<>> THEN Raise("IndexError")
    ELSE LET r == body.results[1]
             results == IF r.hasIdentities THEN r.identities ELSE <<>>
         IN  IF Len(results) = 0 THEN Raise(IdentityNotFound)
             ELSE IF Len(results) > 1 THEN Raise(AmbiguousIdentity)
             ELSE IF ~results[1].hasOriginId THEN Raise("KeyError: originId")
             ELSE Ok(results[1].originId)

(***************************************************************************)
(* __get_pipeline_env_id, lines 196-201, on the environments response.     *)
(***************************************************************************)
GetPipelineEnvId_nocount(status, body) ==
    IF ConnectionError(status) THEN Raise("ConnectionError")
    ELSE IF RaiseForStatus(status) THEN Raise("HTTPError")
    ELSE IF ~body.json THEN Raise("JSONDecodeError")
    ELSE IF body.value = <<>> THEN Ok(NONE)
    ELSE Ok(body.value[1].id)

GetPipelineEnvId(status, body) ==
    IF ConnectionError(status) THEN Raise("ConnectionError")
    ELSE IF RaiseForStatus(status) THEN Raise("HTTPError")
    ELSE IF ~body.json THEN Raise("JSONDecodeError")
    ELSE IF body.count = 0 THEN Raise(EnvironmentNotFound)
    ELSE IF body.value = <<>> THEN Raise("IndexError")
    ELSE Ok(body.value[1].id)

(***************************************************************************)
(* Line 77: account_id in approvers_list, Python's list membership, which  *)
(* compares strings by equality.                                           *)
(***************************************************************************)
AlreadyApprover_never(id, list) == FALSE

AlreadyApprover(id, list) == \E k \in 1..Len(list) : list[k] = id

(***************************************************************************)
(* Lines 80-105: the payload of the creation request.                      *)
(***************************************************************************)
Body_swapped(acct, acct_id, env_id, env_name) ==
    [type |-> [id |-> ADO_APPROVAL_GUID, name |-> "Approval"],
     settings |-> [approvers |-> <<[displayName |-> acct, id |-> acct,
                                    uniqueName |-> acct]>>,
                   executionOrder |-> EXECUTION_ORDER,
                   instructions |-> "",
                   blockedApprovers |-> <<>>,
                   minRequiredApprovers |-> MIN_REQUIRED_APPROVERS,
                   requesterCannotBeApprover |-> FALSE],
     resource |-> [type |-> "environment", id |-> env_id, name |-> env_name],
     timeout |-> TIMEOUT]

Body(acct, acct_id, env_id, env_name) ==
    [type |-> [id |-> ADO_APPROVAL_GUID, name |-> "Approval"],
     settings |-> [approvers |-> <<[displayName |-> acct, id |-> acct_id,
                                    uniqueName |-> acct]>>,
                   executionOrder |-> EXECUTION_ORDER,
                   instructions |-> "",
                   blockedApprovers |-> <<>>,
                   minRequiredApprovers |-> MIN_REQUIRED_APPROVERS,
                   requesterCannotBeApprover |-> FALSE],
     resource |-> [type |-> "environment", id |-> env_id, name |-> env_name],
     timeout |-> TIMEOUT]

(***************************************************************************)
(* Lines 106-109: the end of add_approvers_to_env on the creation          *)
(* response.                                                               *)
(***************************************************************************)
AddApproversResult(status) ==
    IF ConnectionError(status) THEN Raise("ConnectionError")
    ELSE IF RaiseForStatus(status) THEN Raise("HTTPError")
    ELSE Ok(status)

(***************************************************************************)
(* The server's checks listing for an environment whose configured         *)
(* approver ids are S: a 2xx answer reports exactly S, in one of the       *)
(* shapes the platform produces (no checks at all, configurations of       *)
(* other kinds that carry no approvers, approvers without an id).          *)
(***************************************************************************)
ApproversOf(S) == [k \in 1..Cardinality(S) |-> [hasId |-> TRUE, id |-> SeqOfSet(S)[k]]]

ServerChecksBodies(S) ==
    LET cfg(a) == [hasApprovers |-> TRUE, approvers |-> a]
        other == [hasApprovers |-> FALSE, approvers |-> <<>>]
        noid == [hasId |-> FALSE, id |-> NONE]
        body(l) == [json |-> TRUE, hasList |-> TRUE, list |-> l]
    IN  {body(IF S = {} THEN <<>> ELSE <<cfg(ApproversOf(S))>>),
         body(<<other>> \o [k \in 1..Cardinality(S) |-> cfg(<<ApproversOf(S)[k]>>)]),
         body(<<cfg(<<noid>> \o ApproversOf(S))>>)}
        \cup (IF S = {} THEN {[json |-> TRUE, hasList |-> FALSE, list |-> <<>>]} ELSE {})


(***************************************************************************)
(* State.                                                                  *)
(***************************************************************************)
VARIABLES
    pc,                     \* the position of the program
    personal_access_token,  \* the constructor's first argument
    credentials,            \* self.credentials
    account,                \* self.account
    pipeline_env,           \* self.pipeline_env
    project,                \* the argument of add_approvers_to_env
    account_id,             \* line 75
    pipeline_env_id,        \* line 76
    url_env_id,             \* line 131: the id placed in the listing URL
    approvers_list,         \* line 133
    identity_body,          \* the body of the identity response, once read
    checks_body,            \* the body of the listing response, once read
    log,                    \* the requests of this invocation, in order
    outcome,                \* how the invocation ended
    exit_code,              \* <<code>> after sys.exit(code)
    retval,                 \* <<v>> after return v
    srvApprovers,           \* server: approver ids configured per environment
    calls,                  \* invocations started so far
    created,                \* <<what this invocation's 2xx creation made>>
    prev_created            \* the same for the invocation before this one

vars == <<pc, personal_access_token, credentials, account, pipeline_env, project,
          account_id, pipeline_env_id, url_env_id, approvers_list, identity_body,
          checks_body, log, outcome, exit_code, retval, srvApprovers, calls,
          created, prev_created>>

instance == <<personal_access_token, credentials, account, pipeline_env>>
locals == <<account_id, pipeline_env_id, url_env_id, approvers_list,
            identity_body, checks_body>>
ending == <<outcome, exit_code, retval>>

Init ==
    /\ pc = "uninit"
    /\ personal_access_token = NONE
    /\ credentials = [username |-> NONE, password |-> NONE]
    /\ account = NONE
    /\ pipeline_env = NONE
    /\ project = NONE
    /\ account_id = NONE
    /\ pipeline_env_id = NONE
    /\ url_env_id = NONE
    /\ approvers_list = <<>>
    /\ identity_body = <<>>
    /\ checks_body = <<>>
    /\ log = <<>>
    /\ outcome = NONE
    /\ exit_code = <<>>
    /\ retval = <<>>
    /\ srvApprovers \in [EnvIds -> SUBSET Ids]
    /\ calls = 0
    /\ created = <<>>
    /\ prev_created = <<>>

\* every entity is built fresh per invocation: nothing of the last one is kept
FreshInvocation ==
    /\ account_id' = NONE
    /\ pipeline_env_id' = NONE
    /\ url_env_id' = NONE
    /\ approvers_list' = <<>>
    /\ identity_body' = <<>>
    /\ checks_body' = <<>>
    /\ log' = <<>>
    /\ outcome' = NONE
    /\ exit_code' = <<>>
    /\ retval' = <<>>
    /\ prev_created' = IF pc = "done" THEN created ELSE prev_created
    /\ created' = <<>>

(***************************************************************************)
(* __get_personal_access_token, lines 111-117.                             *)
(***************************************************************************)
GetPersonalAccessToken(token) == ADO_PERSONAL_ACCESS_TOKEN

(***************************************************************************)
(* __init__, lines 35-51.  A new instance is made at the start and after   *)
(* an invocation has ended (a new run of the program).                     *)
(***************************************************************************)
Construct(token, acct, env) ==
    /\ pc \in {"uninit", "done"}
    /\ calls < MaxCalls
    /\ personal_access_token' = token
    /\ credentials' = [username |-> "", password |-> GetPersonalAccessToken(token)]
    /\ account' = acct
    /\ pipeline_env' = env
    /\ pc' = "ready"
    /\ project' = NONE
    /\ FreshInvocation
    /\ UNCHANGED <<srvApprovers, calls>>

(***************************************************************************)
(* add_approvers_to_env(project), lines 53-74: the call.  The instance is  *)
(* called again only after a call that returned.                           *)
(***************************************************************************)
Call(proj) ==
    /\ \/ pc = "ready"
       \/ pc = "done" /\ outcome = Returned
    /\ calls < MaxCalls
    /\ calls' = calls + 1
    /\ project' = proj
    /\ pc' = "account_send"
    /\ FreshInvocation
    /\ UNCHANGED <<instance, srvApprovers>>

(***************************************************************************)
(* Requests.  Every request carries self.credentials (auth=) and is        *)
(* logged when sent; its status is filled in when the response arrives.    *)
(***************************************************************************)
Request(kind, method, name, env, payload) ==
    [kind |-> kind, method |-> method, project |-> project, name |-> name,
     env |-> env, payload |-> payload,
     username |-> credentials.username, password |-> credentials.password,
     status |-> <<>>]

Answered(status) == [log EXCEPT ![Len(log)].status = <<status>>]

Send(req, next) ==
    /\ log' = Append(log, req)
    /\ pc' = next
    /\ UNCHANGED <<instance, project, locals, ending, srvApprovers, calls,
                   created, prev_created>>

\* the invocation ends in an exception or in sys.exit
Fail(r) ==
    /\ pc' = "done"
    /\ outcome' = r.err
    /\ exit_code' = r.exit
    /\ retval' = <<>>

\* line 165-171
SendAccount ==
    /\ pc = "account_send"
    /\ Send(Request("identity", "POST", account, NONE, <<>>), "account_recv")

\* lines 171-182, and the assignment of line 75
RecvAccount ==
    /\ pc = "account_recv"
    /\ \E status \in Statuses :
       \E body \in (IF Is2xx(status) THEN IdentityBodies ELSE {ErrorIdentityBody}) :
         LET r == GetAccountId(status, body) IN
         /\ log' = Answered(status)
         /\ identity_body' = IF status = 200 THEN <<body>> ELSE <<>>
         /\ IF r.ok
              THEN /\ account_id' = r.val
                   /\ pc' = "env_send"
                   /\ UNCHANGED ending
              ELSE /\ Fail(r)
                   /\ UNCHANGED account_id
    /\ UNCHANGED <<instance, project, pipeline_env_id, url_env_id, approvers_list,
                   checks_body, srvApprovers, calls, created, prev_created>>

\* lines 195-196, called from line 76
SendEnv ==
    /\ pc = "env_send"
    /\ Send(Request("environment", "GET", pipeline_env, NONE, <<>>), "env_recv")

\* lines 196-201, and the assignment of line 76
RecvEnv ==
    /\ pc = "env_recv"
    /\ \E status \in Statuses :
       \E body \in (IF Is2xx(status) THEN EnvBodies ELSE {ErrorEnvBody}) :
         LET r == GetPipelineEnvId(status, body) IN
         /\ log' = Answered(status)
         /\ IF r.ok
              THEN /\ pipeline_env_id' = r.val
                   /\ pc' = "check_env_send"
                   /\ UNCHANGED ending
              ELSE /\ Fail(r)
                   /\ UNCHANGED pipeline_env_id
    /\ UNCHANGED <<instance, project, account_id, url_env_id, approvers_list,
                   identity_body, checks_body, srvApprovers, calls, created,
                   prev_created>>

\* lines 195-196, called from line 131 while the listing URL is built
SendCheckEnv ==
    /\ pc = "check_env_send"
    /\ Send(Request("environment", "GET", pipeline_env, NONE, <<>>), "check_env_recv")

\* lines 196-201, and the interpolation of line 131
RecvCheckEnv ==
    /\ pc = "check_env_recv"
    /\ \E status \in Statuses :
       \E body \in (IF Is2xx(status) THEN EnvBodies ELSE {ErrorEnvBody}) :
         LET r == GetPipelineEnvId(status, body) IN
         /\ log' = Answered(status)
         /\ IF r.ok
              THEN /\ url_env_id' = r.val
                   /\ pc' = "checks_send"
                   /\ UNCHANGED ending
              ELSE /\ Fail(r)
                   /\ UNCHANGED url_env_id
    /\ UNCHANGED <<instance, project, account_id, pipeline_env_id, approvers_list,
                   identity_body, checks_body, srvApprovers, calls, created,
                   prev_created>>

\* lines 131-132
SendChecks ==
    /\ pc = "checks_send"
    /\ Send(Request("checks", "GET", NONE, url_env_id, <<>>), "checks_recv")

\* lines 132-155 on a response, and lines 77-79
ChecksAnswer(status, body) ==
    /\ log' = Answered(status)
    /\ IF ConnectionError(status)
         THEN /\ Fail(Raise("ConnectionError"))
              /\ UNCHANGED <<approvers_list, checks_body>>
         ELSE LET list == CheckApproverPresence(body) IN
              /\ approvers_list' = list
              /\ checks_body' = <<body>>
              /\ IF AlreadyApprover(account_id, list)
                   THEN Fail(SysExit(1, AlreadyPresent))
                   ELSE /\ pc' = "post_send"
                        /\ UNCHANGED ending
    /\ UNCHANGED <<instance, project, account_id, pipeline_env_id, url_env_id,
                   identity_body, srvApprovers, calls, created, prev_created>>

\* the server answers the listing of the environment named in the URL
RecvChecks ==
    /\ pc = "checks_recv"
    /\ \E status \in Statuses :
       \E body \in (IF Is2xx(status) THEN ServerChecksBodies(srvApprovers[url_env_id])
                                      ELSE {ErrorChecksBody}) :
         ChecksAnswer(status, body)

\* lines 80-106
SendCreate ==
    /\ pc = "post_send"
    /\ Send(Request("create", "POST", NONE, NONE,
                    <<Body(account, account_id, pipeline_env_id, pipeline_env)>>),
            "post_recv")

\* lines 106-109; a 2xx answer means the server stored the configuration
RecvCreate ==
    /\ pc = "post_recv"
    /\ \E status \in Statuses :
         LET r == AddApproversResult(status)
             sent == log[Len(log)].payload[1]
         IN
         /\ log' = Answered(status)
         /\ IF r.ok
              THEN /\ pc' = "done"
                   /\ outcome' = Returned
                   /\ exit_code' = <<>>
                   /\ retval' = <<r.val>>
              ELSE Fail(r)
         /\ IF Is2xx(status)
              THEN /\ srvApprovers' =
                        [srvApprovers EXCEPT ![sent.resource.id] =
                            @ \cup {sent.settings.approvers[k].id :
                                      k \in 1..Len(sent.settings.approvers)}]
                   /\ created' = <<[account |-> account, pipeline_env |-> pipeline_env,
                                    project |-> project, account_id |-> account_id,
                                    env_id |-> sent.resource.id]>>
              ELSE UNCHANGED <<srvApprovers, created>>
    /\ UNCHANGED <<instance, project, locals, calls, prev_created>>

Next ==
    \/ \E token \in Tokens, acct \in Accounts, env \in EnvNames : Construct(token, acct, env)
    \/ \E proj \in Projects : Call(proj)
    \/ SendAccount
    \/ RecvAccount
    \/ SendEnv
    \/ RecvEnv
    \/ SendCheckEnv
    \/ RecvCheckEnv
    \/ SendChecks
    \/ RecvChecks
    \/ SendCreate
    \/ RecvCreate

Spec == Init /\ [][Next]_vars


(***************************************************************************)
(* The traversal alone: the program waits for the listing response and the *)
(* server may answer with any body of the bounded shape, whatever it has   *)
(* stored.                                                                 *)
(***************************************************************************)
InitTraverse ==
    /\ pc = "checks_recv"
    /\ personal_access_token = "dummy_pat"
    /\ credentials = [username |-> "", password |-> GetPersonalAccessToken("dummy_pat")]
    /\ account = "ubaidce@gmail.com"
    /\ pipeline_env = "QA1"
    /\ project = "proj"
    /\ account_id \in Ids
    /\ pipeline_env_id \in EnvIds
    /\ url_env_id = pipeline_env_id
    /\ approvers_list = <<>>
    /\ identity_body = <<[json |-> TRUE,
                          results |-> <<[hasIdentities |-> TRUE,
                                         identities |-> <<[hasOriginId |-> TRUE,
                                                           originId |-> account_id]>>]>>]>>
    /\ checks_body = <<>>
    /\ log = <<[kind |-> "identity", method |-> "POST", project |-> "proj",
                name |-> "ubaidce@gmail.com", env |-> NONE, payload |-> <<>>,
                username |-> credentials.username, password |-> credentials.password,
                status |-> <<200>>],
               [kind |-> "environment", method |-> "GET", project |-> "proj",
                name |-> "QA1", env |-> NONE, payload |-> <<>>,
                username |-> credentials.username, password |-> credentials.password,
                status |-> <<200>>],
               [kind |-> "environment", method |-> "GET", project |-> "proj",
                name |-> "QA1", env |-> NONE, payload |-> <<>>,
                username |-> credentials.username, password |-> credentials.password,
                status |-> <<200>>],
               [kind |-> "checks", method |-> "GET", project |-> "proj",
                name |-> NONE, env |-> url_env_id, payload |-> <<>>,
                username |-> credentials.username, password |-> credentials.password,
                status |-> <<>>]>>
    /\ outcome = NONE
    /\ exit_code = <<>>
    /\ retval = <<>>
    /\ srvApprovers = [e \in EnvIds |-> {}]
    /\ calls = 1
    /\ created = <<>>
    /\ prev_created = <<>>

TraverseListing ==
    /\ pc = "checks_recv"
    /\ \E status \in {st \in Statuses : Is2xx(st)} :
       \E body \in ChecksBodies :
         ChecksAnswer(status, body)

NextTraverse == TraverseListing

SpecTraverse == InitTraverse /\ [][NextTraverse]_vars

(***************************************************************************)
(* Properties.                                                             *)
(***************************************************************************)
Entries(kind) == {k \in 1..Len(log) : log[k].kind = kind}

AnsweredAt(k) == log[k].status # <<>>

\* the matches of the identity query: the entries of results[0].identities
Matches ==
    IF identity_body = <<>> THEN <<>>
    ELSE IF ~identity_body[1].json \/ identity_body[1].results = <<>> THEN <<>>
    ELSE IF ~identity_body[1].results[1].hasIdentities THEN <<>>
    ELSE identity_body[1].results[1].identities

\* the identity query was answered 200 with a results entry to count matches in
QueryAnswered ==
    /\ identity_body # <<>>
    /\ identity_body[1].json
    /\ identity_body[1].results # <<>>

\* C1: when the resolved identity id is among the ids the listing traversal
\* returned, no creation request is sent and the invocation ends in the
\* already-present outcome, sys.exit with a non-zero code, returning nothing.
C1_AlreadyPresentNoPost ==
    (checks_body # <<>> /\ account_id \in Elems(approvers_list)) =>
        /\ pc = "done"
        /\ outcome = AlreadyPresent
        /\ exit_code # <<>>
        /\ exit_code[1] # 0
        /\ retval = <<>>
        /\ Entries("create") = {}

C1_Witness ==
    /\ pc = "done"
    /\ outcome = AlreadyPresent
    /\ checks_body # <<>>
    /\ account_id \in Elems(approvers_list)
    /\ Len(approvers_list) > 1

\* C2 (as claimed): a second call in a row for the same account, environment
\* and project, after a call whose creation request was answered 2xx, that
\* resolves the same identity and environment ids and gets an answer to its
\* listing request, sends no creation request and ends already-present.
C2_SecondCallAlreadyPresent ==
    (/\ prev_created # <<>>
     /\ prev_created[1].account = account
     /\ prev_created[1].pipeline_env = pipeline_env
     /\ prev_created[1].project = project
     /\ prev_created[1].account_id = account_id
     /\ prev_created[1].env_id = pipeline_env_id
     /\ prev_created[1].env_id = url_env_id
     /\ checks_body # <<>>) =>
        /\ Entries("create") = {}
        /\ pc = "done"
        /\ outcome = AlreadyPresent

\* C3 (as claimed): a request answered with a non-2xx status, or not answered
\* at all, is the last request of the invocation, which ends without a
\* return value.
C3_NonSuccessIsTerminal ==
    \A k \in 1..Len(log) :
        (AnsweredAt(k) /\ ~Is2xx(log[k].status[1])) =>
            /\ k = Len(log)
            /\ pc = "done"
            /\ retval = <<>>
            /\ outcome # Returned

\* C4: an identity id is resolved only from a query with exactly one match,
\* and is that match's originId; zero matches end the invocation with
\* IdentityNotFound and more than one with AmbiguousIdentity, and after
\* either the identity query is the only request made.
C4_ResolveIdentity ==
    /\ account_id # NONE =>
          /\ QueryAnswered
          /\ Len(Matches) = 1
          /\ Matches[1].hasOriginId
          /\ account_id = Matches[1].originId
    /\ (QueryAnswered /\ Len(Matches) = 0) =>
          (pc = "done" /\ outcome = IdentityNotFound)
    /\ (QueryAnswered /\ Len(Matches) > 1) =>
          (pc = "done" /\ outcome = AmbiguousIdentity)
    /\ outcome \in {IdentityNotFound, AmbiguousIdentity} =>
          /\ account_id = NONE
          /\ Len(log) = 1
          /\ log[1].kind = "identity"
          /\ retval = <<>>

C4_Witness ==
    /\ pc = "done"
    /\ outcome = AmbiguousIdentity
    /\ Len(Matches) = 2
    /\ Matches[1].hasOriginId
    /\ Len(log) = 1

\* C5 (as claimed): a status code is returned only when the creation request
\* was answered 2xx, and is that status; a creation request answered with
\* any other status does not end in a return.
C5_ReturnOnly2xx ==
    /\ retval # <<>> =>
          \E k \in Entries("create") :
              /\ AnsweredAt(k)
              /\ Is2xx(log[k].status[1])
              /\ retval[1] = log[k].status[1]
    /\ \A k \in Entries("create") :
          (AnsweredAt(k) /\ ~Is2xx(log[k].status[1])) =>
              (outcome # Returned /\ retval = <<>>)

\* the ids at checkConfigurationDataList[*].checkConfiguration.settings
\* .approvers[*].id of a listing body
IdsPresent(body) ==
    IF ~body.json \/ ~body.hasList THEN {}
    ELSE UNION {{body.list[c].approvers[a].id :
                    a \in {x \in 1..Len(body.list[c].approvers) :
                              body.list[c].approvers[x].hasId}} :
                c \in {y \in 1..Len(body.list) : body.list[y].hasApprovers}}

\* C6: for every listing body the traversal returns exactly the ids present
\* in it: a missing key contributes nothing at its level and does not stop
\* the traversal, and a body without checkConfigurationDataList gives the
\* empty result and the invocation goes on to the creation request.
C6_TraversalIsDefensive ==
    checks_body # <<>> =>
        /\ Elems(approvers_list) = IdsPresent(checks_body[1])
        /\ ~checks_body[1].hasList =>
              /\ approvers_list = <<>>
              /\ pc = "done" => Entries("create") # {}

C6_Witness ==
    /\ checks_body # <<>>
    /\ checks_body[1].hasList
    /\ Len(checks_body[1].list) = 2
    /\ ~checks_body[1].list[1].hasApprovers
    /\ checks_body[1].list[2].hasApprovers
    /\ Len(checks_body[1].list[2].approvers) = 2
    /\ ~checks_body[1].list[2].approvers[1].hasId
    /\ checks_body[1].list[2].approvers[2].hasId
    /\ Len(approvers_list) = 1

\* C7 (as claimed): every request carries an empty username and, as
\* password, the token the instance was constructed with.
C7_PasswordIsConstructorToken ==
    \A k \in 1..Len(log) :
        /\ log[k].username = ""
        /\ log[k].password = personal_access_token

\* C8: the payload of every creation request names exactly one approver, with
\* the identity id resolved in this invocation and the configured account as
\* displayName and uniqueName; its resource is the environment resolved in
\* this invocation under the configured name; and minRequiredApprovers = 1,
\* executionOrder = 1, requesterCannotBeApprover = false, blockedApprovers
\* is empty and timeout = 43200.
C8_CreationPayload ==
    \A k \in Entries("create") :
        /\ Len(log[k].payload) = 1
        /\ LET p == log[k].payload[1] IN
           /\ Len(Matches) = 1
           /\ p.settings.approvers = <<[displayName |-> account,
                                        id |-> Matches[1].originId,
                                        uniqueName |-> account]>>
           /\ p.resource.type = "environment"
           /\ p.resource.id = pipeline_env_id
           /\ p.resource.id \in EnvIds
           /\ p.resource.name = pipeline_env
           /\ p.settings.minRequiredApprovers = 1
           /\ p.settings.executionOrder = 1
           /\ p.settings.requesterCannotBeApprover = FALSE
           /\ p.settings.blockedApprovers = <<>>
           /\ p.timeout = 43200
           /\ log[k].project = project

C8_Witness ==
    /\ Entries("create") # {}
    /\ account = "alice@example.com"
    /\ account_id = "U1"
    /\ pipeline_env_id = "E9"

\* C9 (as claimed): one invocation sends the environment lookup at most once,
\* and the environment id in the listing URL is the one in the creation
\* payload.
C9_EnvironmentResolvedOnce ==
    /\ Cardinality(Entries("environment")) <= 1
    /\ \A c \in Entries("create") : \A l \in Entries("checks") :
          log[l].env = log[c].payload[1].resource.id

Rank(kind) ==
    CASE kind = "identity" -> 1
      [] kind = "environment" -> 2
      [] kind = "checks" -> 3
      [] kind = "create" -> 4

\* C10: the requests of an invocation go out one at a time, each after the
\* answer to the one before, in the order identity lookup, environment
\* lookup, checks listing, creation; the creation request is the only one
\* that writes, is sent at most once, and only after the identity lookup
\* gave an id, the environment lookup gave an id and the listing was
\* answered; the listing itself is requested for an environment id that
\* the lookup before it gave.
C10_SequentialOrder ==
    /\ \A k \in 1..Len(log) : \A m \in 1..Len(log) :
          k < m => (AnsweredAt(k) /\ Rank(log[k].kind) <= Rank(log[m].kind))
    /\ Len(log) > 0 => log[1].kind = "identity"
    /\ \A k \in 1..Len(log) :
          /\ (log[k].kind = "create") = (log[k].payload # <<>>)
          /\ log[k].kind \in {"environment", "checks"} => log[k].method = "GET"
    /\ \A l \in Entries("checks") :
          /\ \E k \in Entries("environment") : k < l
          /\ log[l].env \in EnvIds
    /\ Cardinality(Entries("create")) <= 1
    /\ \A c \in Entries("create") :
          /\ \E k \in Entries("identity") : k < c /\ log[k].status = <<200>>
          /\ account_id \in Ids
          /\ \E k \in Entries("environment") : k < c /\ AnsweredAt(k)
          /\ pipeline_env_id \in EnvIds
          /\ url_env_id \in EnvIds
          /\ \E k \in Entries("checks") : k < c /\ AnsweredAt(k)
          /\ checks_body # <<>>

C10_Witness ==
    /\ pc = "done"
    /\ outcome = Returned
    /\ Len(log) = 5
    /\ log[5].kind = "create"
    /\ log[5].status = <<200>>

=============================================================================
